---- MODULE Spec2Model ----
(***************************************************************************)
(* Model of skimple (src/src/lib.rs): SkimpleMatcher::fuzzy_best and       *)
(* SkimpleMatcher::fuzzy_all over an external scorer                       *)
(* (SkimMatcherV2::fuzzy_match).                                           *)
(*                                                                         *)
(* A &'a str handed back by either function is a reference to one element  *)
(* of the haystack slice; it is modelled as the position of that element   *)
(* (1-based), its content being haystack[position].                        *)
(*                                                                         *)
(* The needle is the same in every call of a behaviour, so the scorer is   *)
(* represented by its restriction to that needle: a function of the        *)
(* candidate string.  Its result type is Option<i64>; the i64 sum of the   *)
(* scores cannot come near 2^63 for scores bounded by MaxScore, so the     *)
(* integers are unbounded here.                                            *)
(***************************************************************************)
EXTENDS Integers, Sequences, FiniteSets, TLC

\* ---- bounds ----
MaxLen == 3
MaxScore == 2
MaxCalls == 2

\* ---- values ----
Cands == {"Mort", "Pyramids", "Wyrd Sisters"}

ScoreValues == {0 - 1} \cup (0..MaxScore)

None == [some |-> FALSE, val |-> 0]

Some(x) == [some |-> TRUE, val |-> x]

OptionI64 == {None} \cup {Some(x) : x \in ScoreValues}

Haystacks == UNION {[1..n -> Cands] : n \in 0..MaxLen}

NeedleNotFoundError == [kind |-> "NeedleNotFoundError", value |-> <<>>]

NeedleDisappearedError == [kind |-> "NeedleDisappearedError", value |-> <<>>]

Ok(v) == [kind |-> "Ok", value |-> v]

Panic == [kind |-> "Panic", value |-> <<>>]

Pending == [kind |-> "Pending", value |-> <<>>]

VARIABLES
    haystack,     \* the candidate slice of the calls
    fuzzy_match,  \* the scorer, for the needle of the calls
    op,           \* the function being executed
    pc,           \* its position
    it,           \* position of haystack.iter() in the scoring pass
    results,      \* the local Vec<i64> results
    matches,      \* the local Vec<(&str, i64)> matches of fuzzy_all
    ret,          \* the value the call returns
    invoked,      \* number of scorer invocations per haystack position
    history       \* the finished calls: <<op, ret>> records

vars == <<haystack, fuzzy_match, op, pc, it, results, matches, ret, invoked, history>>

\* ---- pure helpers ----

\* Option::unwrap_or
UnwrapOr(o, d) == IF o.some THEN o.val ELSE d

\* Iterator::sum::<i64>
RECURSIVE SumI64(_)
SumI64(s) == IF s = <<>> THEN 0 ELSE Head(s) + SumI64(Tail(s))

\* the comparator |(_, a), (_, b)| a.cmp(b): TRUE when a is Ordering::Greater than b
CmpGreater(a, b) == a > b

\* Iterator::max_by over results.iter().enumerate(): a fold that keeps the
\* accumulator only when it compares Greater, so the last maximum wins.
\* acc is the position kept so far (0: nothing yet), k the next position.
RECURSIVE MaxByFold(_, _, _)
MaxByFold(s, acc, k) ==
    IF k > Len(s) THEN acc
    ELSE IF acc = 0 THEN MaxByFold(s, k, k + 1)
    ELSE IF CmpGreater(s[acc], s[k]) THEN MaxByFold(s, acc, k + 1)
    ELSE MaxByFold(s, k, k + 1)

MaxByFirst(s) ==
    IF s = <<>> THEN None
    ELSE Some(CHOOSE i \in 1..Len(s) :
                 /\ \A j \in 1..Len(s) : s[i] >= s[j]
                 /\ \A j \in 1..(i - 1) : s[j] < s[i])

MaxByMin(s) ==
    IF s = <<>> THEN None
    ELSE Some(CHOOSE i \in 1..Len(s) : \A j \in 1..Len(s) : s[i] <= s[j])

\* results.iter().enumerate().max_by(..).map(|(index, _)| index)
MaxBy(s) ==
    LET m == MaxByFold(s, 0, 1) IN IF m = 0 THEN None ELSE Some(m)

NotFoundCondEmpty(s) == s = <<>>

NotFoundCondNegative(s) == SumI64(s) < 0

\* results.iter().sum::<i64>() == 0
NotFoundCond(s) == SumI64(s) = 0

\* haystack.iter().map(as_ref).zip(results.into_iter()): pairs up to the shorter
Zip(h, r) ==
    LET n == IF Len(h) < Len(r) THEN Len(h) ELSE Len(r)
    IN [k \in 1..n |-> [item |-> k, score |-> r[k]]]

RECURSIVE FilterDedup(_)
FilterDedup(z) ==
    IF z = <<>> THEN <<>>
    ELSE LET rest == FilterDedup(Tail(z))
         IN IF Head(z).score = 0 \/ \E k \in 1..Len(rest) : rest[k].score = Head(z).score
            THEN rest ELSE <<Head(z)>> \o rest

\* .filter(|(_, score)| *score != 0)
RECURSIVE FilterNonZero(_)
FilterNonZero(z) ==
    IF z = <<>> THEN <<>>
    ELSE IF Head(z).score # 0 THEN <<Head(z)>> \o FilterNonZero(Tail(z))
    ELSE FilterNonZero(Tail(z))

\* insertion of x into a sorted sequence behind every element that is not Greater
RECURSIVE InsertStable(_, _)
InsertStable(s, x) ==
    IF s = <<>> THEN <<x>>
    ELSE IF CmpGreater(Head(s).score, x.score) THEN <<x>> \o s
    ELSE <<Head(s)>> \o InsertStable(Tail(s), x)

RECURSIVE InsertBeforeEqual(_, _)
InsertBeforeEqual(s, x) ==
    IF s = <<>> THEN <<x>>
    ELSE IF Head(s).score >= x.score THEN <<x>> \o s
    ELSE <<Head(s)>> \o InsertBeforeEqual(Tail(s), x)

RECURSIVE InsertDescending(_, _)
InsertDescending(s, x) ==
    IF s = <<>> THEN <<x>>
    ELSE IF CmpGreater(x.score, Head(s).score) THEN <<x>> \o s
    ELSE <<Head(s)>> \o InsertDescending(Tail(s), x)

RECURSIVE SortWith(_, _, _)
SortWith(s, acc, k) ==
    IF k > Len(s) THEN acc ELSE SortWith(s, InsertStable(acc, s[k]), k + 1)

RECURSIVE SortUnstableWith(_, _, _)
SortUnstableWith(s, acc, k) ==
    IF k > Len(s) THEN acc ELSE SortUnstableWith(s, InsertBeforeEqual(acc, s[k]), k + 1)

RECURSIVE SortDescendingWith(_, _, _)
SortDescendingWith(s, acc, k) ==
    IF k > Len(s) THEN acc ELSE SortDescendingWith(s, InsertDescending(acc, s[k]), k + 1)

SortByUnstable(s) == SortUnstableWith(s, <<>>, 1)

SortByDescending(s) == SortDescendingWith(s, <<>>, 1)

\* matches.sort_by(|(_, a), (_, b)| a.cmp(b)): slice::sort_by is a stable sort
SortBy(s) == SortWith(s, <<>>, 1)

\* matches.into_iter().map(|(item, _)| item).collect()
Items(s) == [k \in 1..Len(s) |-> s[k].item]

\* ---- state machine ----

Init ==
    /\ haystack \in Haystacks
    /\ fuzzy_match \in [Cands -> OptionI64]
    /\ op = "none"
    /\ pc = "idle"
    /\ it = 1
    /\ results = <<>>
    /\ matches = <<>>
    /\ ret = Pending
    /\ invoked = [k \in 1..Len(haystack) |-> 0]
    /\ history = <<>>

EnterKeepLocals(f) ==
    /\ pc = "idle"
    /\ Len(history) < MaxCalls
    /\ op' = f
    /\ pc' = "score"
    /\ it' = 1
    /\ matches' = <<>>
    /\ ret' = Pending
    /\ invoked' = [k \in 1..Len(haystack) |-> 0]
    /\ UNCHANGED <<haystack, fuzzy_match, results, history>>

\* entry of a call: fresh locals, iterator at the first element
Enter(f) ==
    /\ pc = "idle"
    /\ Len(history) < MaxCalls
    /\ op' = f
    /\ pc' = "score"
    /\ it' = 1
    /\ results' = <<>>
    /\ matches' = <<>>
    /\ ret' = Pending
    /\ invoked' = [k \in 1..Len(haystack) |-> 0]
    /\ UNCHANGED <<haystack, fuzzy_match, history>>

CallBest == Enter("fuzzy_best")

CallAll == Enter("fuzzy_all")

\* one step of haystack.iter().map(|item| fuzzy_match(item, needle).unwrap_or(0)).collect()
ScoreItem ==
    /\ pc = "score"
    /\ it <= Len(haystack)
    /\ results' = Append(results, UnwrapOr(fuzzy_match[haystack[it]], 0))
    /\ invoked' = [invoked EXCEPT ![it] = @ + 1]
    /\ it' = it + 1
    /\ UNCHANGED <<haystack, fuzzy_match, op, pc, matches, ret, history>>

\* the iterator is exhausted and the sum is 0: return Err(NeedleNotFoundError)
SumZero ==
    /\ pc = "score"
    /\ it > Len(haystack)
    /\ NotFoundCond(results)
    /\ ret' = NeedleNotFoundError
    /\ pc' = "done"
    /\ UNCHANGED <<haystack, fuzzy_match, op, it, results, matches, invoked, history>>

\* the iterator is exhausted and the sum is not 0: go on to the selection
SumNonZero ==
    /\ pc = "score"
    /\ it > Len(haystack)
    /\ ~NotFoundCond(results)
    /\ pc' = IF op = "fuzzy_best" THEN "select" ELSE "filter"
    /\ UNCHANGED <<haystack, fuzzy_match, op, it, results, matches, ret, invoked, history>>

\* haystack[max_by(..).map(index).ok_or(NeedleDisappearedError)?].as_ref()
BestSelect ==
    /\ pc = "select"
    /\ op = "fuzzy_best"
    /\ LET m == MaxBy(results)
       IN ret' = IF ~m.some THEN NeedleDisappearedError
                 ELSE IF m.val \in 1..Len(haystack) THEN Ok(<<m.val>>)
                 ELSE Panic
    /\ pc' = "done"
    /\ UNCHANGED <<haystack, fuzzy_match, op, it, results, matches, invoked, history>>

AllFilterRescore ==
    /\ pc = "filter"
    /\ op = "fuzzy_all"
    /\ matches' = FilterNonZero(Zip(haystack, results))
    /\ invoked' = [k \in 1..Len(haystack) |-> invoked[k] + 1]
    /\ pc' = "sort"
    /\ UNCHANGED <<haystack, fuzzy_match, op, it, results, ret, history>>

\* let mut matches = haystack.iter().map(as_ref).zip(results).filter(..).collect()
AllFilter ==
    /\ pc = "filter"
    /\ op = "fuzzy_all"
    /\ matches' = FilterNonZero(Zip(haystack, results))
    /\ pc' = "sort"
    /\ UNCHANGED <<haystack, fuzzy_match, op, it, results, ret, invoked, history>>

\* matches.sort_by(..); Ok(matches.into_iter().map(|(item, _)| item).collect())
AllSort ==
    /\ pc = "sort"
    /\ op = "fuzzy_all"
    /\ matches' = SortBy(matches)
    /\ ret' = Ok(Items(matches'))
    /\ pc' = "done"
    /\ UNCHANGED <<haystack, fuzzy_match, op, it, results, invoked, history>>

\* the call returns to its caller, which keeps the outcome
Return ==
    /\ pc = "done"
    /\ history' = Append(history, [op |-> op, ret |-> ret])
    /\ pc' = "idle"
    /\ UNCHANGED <<haystack, fuzzy_match, op, it, results, matches, ret, invoked>>

Next ==
    \/ CallBest
    \/ CallAll
    \/ ScoreItem
    \/ SumZero
    \/ SumNonZero
    \/ BestSelect
    \/ AllFilter
    \/ AllSort
    \/ Return

Spec == Init /\ [][Next]_vars

\* ---- properties ----

\* the score the aggregation sees for position i: absent counts as 0
Score(i) == UnwrapOr(fuzzy_match[haystack[i]], 0)

Positions == 1..Len(haystack)

\* the scorer's contract: a score is a non-negative integer or absent
ScorerContract == \A i \in Positions : Score(i) >= 0

AllZero == \A i \in Positions : Score(i) = 0

MaxPositions == {i \in Positions : \A j \in Positions : Score(i) >= Score(j)}

NonZeroPositions == {i \in Positions : Score(i) # 0}

Finished(f) == pc = "done" /\ op = f

SetMax(S) == CHOOSE x \in S : \A y \in S : x >= y

SetMin(S) == CHOOSE x \in S : \A y \in S : x <= y

\* C1: on a non-empty haystack whose scores are non-negative and not all zero,
\* fuzzy_best returns Ok with a position of the haystack whose score is at
\* least the score of every position.
C1_BestIsMaximal ==
    (Finished("fuzzy_best") /\ haystack # <<>> /\ ScorerContract /\ ~AllZero)
        => /\ ret.kind = "Ok"
           /\ Len(ret.value) = 1
           /\ ret.value[1] \in Positions
           /\ \A j \in Positions : Score(ret.value[1]) >= Score(j)

C1_Witness ==
    /\ Finished("fuzzy_best")
    /\ ScorerContract
    /\ ret.kind = "Ok"
    /\ \E i, j \in Positions : 0 < Score(i) /\ Score(i) < Score(j)

\* C2: when every candidate scores zero or absent (the empty haystack
\* included), fuzzy_best and fuzzy_all both return Err(NeedleNotFoundError)
\* and nothing else.
C2_AllZeroNotFound ==
    (pc = "done" /\ AllZero) => ret = NeedleNotFoundError

C2_Witness ==
    /\ Finished("fuzzy_all")
    /\ AllZero
    /\ Len(haystack) >= 2
    /\ \E i \in Positions : ~fuzzy_match[haystack[i]].some
    /\ \E i \in Positions : fuzzy_match[haystack[i]] = Some(0)
    /\ ret = NeedleNotFoundError
    /\ \E h \in 1..Len(history) :
          history[h] = [op |-> "fuzzy_best", ret |-> NeedleNotFoundError]

\* C3: a successful fuzzy_all returns only positions with a non-zero score,
\* and the scores of consecutive output elements never decrease.
C3_AllNonZeroAscending ==
    (Finished("fuzzy_all") /\ ret.kind = "Ok")
        => /\ \A k \in 1..Len(ret.value) :
                 ret.value[k] \in Positions /\ Score(ret.value[k]) # 0
           /\ \A k \in 1..(Len(ret.value) - 1) :
                 Score(ret.value[k]) <= Score(ret.value[k + 1])

C3_Witness ==
    /\ Finished("fuzzy_all")
    /\ ret.kind = "Ok"
    /\ Len(ret.value) >= 2
    /\ Score(ret.value[1]) < Score(ret.value[Len(ret.value)])
    /\ ret.value[1] > ret.value[Len(ret.value)]
    /\ \E i \in Positions : Score(i) = 0

\* C4 as stated: when several candidates share the maximum score, fuzzy_best
\* returns the one at the smallest position among them (scores within the
\* scorer's contract).
C4_FirstMaxWins ==
    (Finished("fuzzy_best") /\ ret.kind = "Ok" /\ ScorerContract)
        => ret.value = <<SetMin(MaxPositions)>>

\* C4 amended: when several candidates share the maximum score, fuzzy_best
\* returns the one at the largest position among them (the last in input order).
C4_LastMaxWins ==
    (Finished("fuzzy_best") /\ ret.kind = "Ok")
        => ret.value = <<SetMax(MaxPositions)>>

C4_Witness ==
    /\ Finished("fuzzy_best")
    /\ ret.kind = "Ok"
    /\ Cardinality(MaxPositions) >= 2
    /\ \E i \in Positions : i \notin MaxPositions /\ i > SetMin(MaxPositions)

C6_StableOrder ==
    (Finished("fuzzy_all") /\ ret.kind = "Ok")
        => \A k, l \in 1..Len(ret.value) :
              (k < l /\ Score(ret.value[k]) = Score(ret.value[l]))
                  => ret.value[k] < ret.value[l]

C6_Witness ==
    /\ Finished("fuzzy_all")
    /\ ret.kind = "Ok"
    /\ \E k, l \in 1..Len(ret.value) :
          /\ k < l
          /\ Score(ret.value[k]) = Score(ret.value[l])
          /\ haystack[ret.value[k]] # haystack[ret.value[l]]
    /\ \E k, l \in 1..Len(ret.value) : Score(ret.value[k]) # Score(ret.value[l])

\* C7: two finished calls of the same function on the same haystack, needle
\* and scorer returned the same value or the same error.
C7_SameCallSameOutcome ==
    \A a, b \in 1..Len(history) :
        history[a].op = history[b].op => history[a].ret = history[b].ret

C7_Witness ==
    /\ Len(history) >= 2
    /\ history[1].op = "fuzzy_best"
    /\ history[2].op = "fuzzy_best"
    /\ history[2].ret.kind = "Ok"
    /\ Len(haystack) >= 2

\* C8: no call ever returns NeedleDisappearedError: at the maximum search the
\* score list is non-empty and the search yields a position of the haystack.
C8_NeverDisappeared ==
    /\ ret # NeedleDisappearedError
    /\ \A h \in 1..Len(history) : history[h].ret # NeedleDisappearedError
    /\ pc = "select"
          => /\ results # <<>>
             /\ MaxBy(results).some
             /\ MaxBy(results).val \in Positions

C8_Witness ==
    /\ Finished("fuzzy_best")
    /\ ret.kind = "Ok"
    /\ \E i \in Positions : Score(i) < 0
    /\ \E h \in 1..Len(history) : history[h].op = "fuzzy_all" /\ history[h].ret.kind = "Ok"

\* C9: in every call the scorer is invoked at most once per position while
\* scoring is under way, in haystack order, and exactly once per position by
\* the time the sum is tested, the maximum is selected, the matches are
\* filtered and sorted, or the call returns.
C9_ScoredExactlyOnce ==
    /\ pc = "score"
          => \A k \in Positions : invoked[k] = (IF k < it THEN 1 ELSE 0)
    /\ pc \in {"select", "filter", "sort", "done"}
          => \A k \in Positions : invoked[k] = 1
    /\ pc \in {"select", "filter", "sort", "done"} => Len(results) = Len(haystack)

C9_Witness ==
    /\ Finished("fuzzy_all")
    /\ ret.kind = "Ok"
    /\ Len(haystack) >= 2
    /\ \A k \in Positions : invoked[k] = 1
    /\ \E h \in 1..Len(history) : history[h].op = "fuzzy_best"

\* C10: a successful fuzzy_all returns every position with a non-zero score
\* exactly once and nothing else, so duplicates of a candidate are kept.
C10_AllIsPermutationOfNonZero ==
    (Finished("fuzzy_all") /\ ret.kind = "Ok")
        => /\ Len(ret.value) = Cardinality(NonZeroPositions)
           /\ \A i \in NonZeroPositions :
                 Cardinality({k \in 1..Len(ret.value) : ret.value[k] = i}) = 1
           /\ \A k \in 1..Len(ret.value) : ret.value[k] \in NonZeroPositions

C10_Witness ==
    /\ Finished("fuzzy_all")
    /\ ret.kind = "Ok"
    /\ \E k, l \in 1..Len(ret.value) :
          k # l /\ haystack[ret.value[k]] = haystack[ret.value[l]]
    /\ \E i \in Positions : Score(i) = 0

====
